---------------------------- MODULE Spec2Model ----------------------------
(***************************************************************************)
(* Model of src/arxiv_mcp_http_server.py: the query builder and topic slug *)
(* of search_papers, the load / merge / store of the per-topic document    *)
(* papers_info.json, extract_info's scan of the cache store, and the       *)
(* JSON-RPC dispatch of mcp_endpoint.                                      *)
(*                                                                         *)
(* Python strings are sequences of one-character strings, so lower(),      *)
(* replace(), slicing and f-string formatting are computed character by    *)
(* character.  An Optional[str] is a record [some, val]; None is           *)
(* [some |-> FALSE, val |-> <<>>].                                         *)
(***************************************************************************)
EXTENDS Integers, Sequences, FiniteSets, TLC

VARIABLES
    store,        \* PAPER_DIR: topic slug -> content of <slug>/papers_info.json
    response,     \* the HTTP response of the last POST /mcp
    call,         \* the inputs of the last POST /mcp: the request and the provider's results
    procs,        \* concurrent search_papers calls: their position and locals
    req,          \* query builder: the SearchRequest being processed
    final_query,  \* query builder: the ProviderQuery (line 118)
    query_slug,   \* query builder: the topic slug (lines 134-136)
    qpc           \* query builder: "new" before, "built" after

vars == <<store, response, call, procs, req, final_query, query_slug, qpc>>

-----------------------------------------------------------------------------
(* Bounds of the model *)

\* longest query string drawn (besides the padded ones that reach the slug limit)
MaxQueryLen == 2
\* longest author filter drawn
MaxAuthorLen == 2
\* longest provider result list of one call
MaxResults == 2
\* longest provider result list of one call in the concurrent specification
MaxConcResults == 1

\* the slice [:50] of line 134
SlugMax == 50

-----------------------------------------------------------------------------
(* Python string helpers *)

None == [some |-> FALSE, val |-> <<>>]
Some(s) == [some |-> TRUE, val |-> s]

\* Python truthiness of an Optional[str]: None and "" are both falsy
Truthy(o) == o.some /\ o.val # <<>>

\* str(x) inside an f-string: None prints as "None"
Fmt(o) == IF o.some THEN o.val ELSE <<"N", "o", "n", "e">>

UpperLetters == <<"A", "B", "C", "J", "O", "T">>
LowerLetters == <<"a", "b", "c", "j", "o", "t">>

LowerChar(c) ==
    IF \E i \in 1..Len(UpperLetters) : UpperLetters[i] = c
    THEN LowerLetters[CHOOSE i \in 1..Len(UpperLetters) : UpperLetters[i] = c]
    ELSE c

\* str.lower()
Lower(s) == [i \in 1..Len(s) |-> LowerChar(s[i])]

\* str.replace(old, new) for one-character old and new
Replace(s, old, new) == [i \in 1..Len(s) |-> IF s[i] = old THEN new ELSE s[i]]

\* s[:n]
Prefix(s, n) == SubSeq(s, 1, IF Len(s) < n THEN Len(s) ELSE n)

RECURSIVE Join(_, _)
\* sep.join(parts)
Join(sep, parts) ==
    IF parts = <<>> THEN <<>>
    ELSE IF Len(parts) = 1 THEN parts[1]
    ELSE parts[1] \o sep \o Join(sep, Tail(parts))

RECURSIVE SeqsUpTo(_, _)
\* all sequences over S of length at most n
SeqsUpTo(S, n) ==
    IF n = 0 THEN {<<>>}
    ELSE LET shorter == SeqsUpTo(S, n - 1)
         IN shorter \cup {Append(s, c) : s \in {x \in shorter : Len(x) = n - 1}, c \in S}

-----------------------------------------------------------------------------
(* Query builder: search_papers lines 82-118 and 133-136 *)

S_all      == <<"a", "l", "l">>
S_title    == <<"t", "i", "t", "l", "e">>
S_TITLE    == <<"T", "i", "t", "l", "e">>
S_author   == <<"a", "u", "t", "h", "o", "r">>
S_abstract == <<"a", "b", "s", "t", "r", "a", "c", "t">>
S_category == <<"c", "a", "t", "e", "g", "o", "r", "y">>
S_comment  == <<"c", "o", "m", "m", "e", "n", "t">>
S_journal  == <<"j", "o", "u", "r", "n", "a", "l">>
S_journal_ref == <<"j", "o", "u", "r", "n", "a", "l", "_", "r", "e", "f">>
S_report_number == <<"r", "e", "p", "o", "r", "t", "_", "n", "u", "m", "b", "e", "r">>
S_ti  == <<"t", "i">>
S_au  == <<"a", "u">>
S_abs == <<"a", "b", "s">>
S_cat == <<"c", "a", "t">>
S_co  == <<"c", "o">>
S_jr  == <<"j", "r">>
S_AND == <<" ", "A", "N", "D", " ">>
S_TO  == <<" ", "T", "O", " ">>
S_to  == <<" ", "t", "o", " ">>
S_submittedDate == <<"s", "u", "b", "m", "i", "t", "t", "e", "d", "D", "a", "t", "e", ":", "[">>
S_0000 == <<"0", "0", "0", "0">>
S_2359 == <<"2", "3", "5", "9">>
S_by   == <<"_", "b", "y", "_">>
S_relevance == <<"r", "e", "l", "e", "v", "a", "n", "c", "e">>

\* field_mapping.get(key, "all") with a comment code changed: a faulty variant
field_mapping_miscoded(key) ==
    CASE key = S_title    -> S_ti
      [] key = S_author   -> S_au
      [] key = S_abstract -> S_abs
      [] key = S_category -> S_cat
      [] key = S_comment  -> S_cat
      [] key = S_journal  -> S_jr
      [] OTHER            -> S_all

\* field_mapping.get(key, "all")
field_mapping(key) ==
    CASE key = S_title    -> S_ti
      [] key = S_author   -> S_au
      [] key = S_abstract -> S_abs
      [] key = S_category -> S_cat
      [] key = S_comment  -> S_co
      [] key = S_journal  -> S_jr
      [] key = S_all      -> S_all
      [] OTHER            -> S_all

\* lines 95-101: the term clause
TermClause(r) ==
    LET field_prefix == field_mapping(Lower(r.search_field))
    IN IF field_prefix # S_all
       THEN field_prefix \o <<":">> \o r.query
       ELSE r.query

\* lines 104-106: the author clause, as a list of zero or one parts
AuthorParts(r) ==
    IF Truthy(r.author_search)
    THEN <<S_au \o <<":">> \o Lower(Replace(r.author_search.val, " ", "_"))>>
    ELSE <<>>

\* lines 109-115: the date clause, as a list of zero or one parts
DateParts(r) ==
    IF Truthy(r.date_from) \/ Truthy(r.date_to)
    THEN IF Truthy(r.date_from) /\ Truthy(r.date_to)
         THEN <<S_submittedDate \o r.date_from.val \o S_0000 \o S_TO
                 \o r.date_to.val \o S_2359 \o <<"]">> >>
         ELSE IF Truthy(r.date_from)
         THEN <<S_submittedDate \o r.date_from.val \o S_0000 \o S_TO \o <<"*", "]">> >>
         ELSE <<S_submittedDate \o <<"*">> \o S_TO \o r.date_to.val \o S_2359 \o <<"]">> >>
    ELSE <<>>

\* lines 83-118: final_query
FinalQuery(r) == Join(S_AND, <<TermClause(r)>> \o AuthorParts(r) \o DateParts(r))

\* lines 134-136: query_slug
QuerySlug(query, author_search) ==
    LET base == Prefix(Replace(Replace(Lower(query), " ", "_"), "/", "_"), SlugMax)
    IN IF Truthy(author_search)
       THEN base \o S_by \o Replace(author_search.val, " ", "_")
       ELSE base

\* line 175: the date_range provenance string
DateRange(r) ==
    IF Truthy(r.date_from) \/ Truthy(r.date_to)
    THEN Some(Fmt(r.date_from) \o S_to \o Fmt(r.date_to))
    ELSE None

-----------------------------------------------------------------------------
(* Inputs of the query-builder specification *)

QueryChars == {"B", " ", "/"}
AuthorChars == {"J", " ", "/"}
S_date1 == <<"2", "0", "2", "4", "0", "1", "0", "1">>
S_date2 == <<"2", "0", "2", "4", "0", "1", "3", "1">>

\* a run of SlugMax - 1 characters, so that the padded queries straddle the slice
Pad == [i \in 1..(SlugMax - 1) |-> "x"]

ShortQueries == SeqsUpTo(QueryChars, MaxQueryLen)
QueryStrings == ShortQueries \cup {Pad \o q : q \in ShortQueries}
AuthorFilters == {None} \cup {Some(a) : a \in SeqsUpTo(AuthorChars, MaxAuthorLen)}
SearchFields == {S_all, S_title, S_TITLE, S_author, S_abstract, S_category,
                 S_comment, S_journal, S_journal_ref, S_report_number}
DatesFrom == {None, Some(S_date1)}
DatesTo == {None, Some(S_date2)}

QRequests ==
    [query : QueryStrings, search_field : SearchFields, sort_by : {S_relevance},
     author_search : AuthorFilters, date_from : DatesFrom, date_to : DatesTo]

-----------------------------------------------------------------------------
(* The cache store: documents, provider results, load, merge, store *)

Ids == {"A", "B"}
\* an identifier no provider result carries
AbsentId == "Z"
\* the provider's content for a paper (title, authors, summary, pdf_url, dates,
\* categories, entry_id: all copied alike by lines 161-169)
Versions == {"v1", "v2"}
\* what the provider may return: paper A with either content, so that a later
\* call can bring different content for a stored identifier, paper B with one
PaperRecords == {p \in [id : Ids, title : Versions] : p.id = "A" \/ p.title = "v1"}

EmptyMap == [x \in {} |-> x]

\* the content of a papers_info.json file
Missing     == [kind |-> "missing", map |-> EmptyMap]
\* not JSON: an empty or truncated file (json.JSONDecodeError on load)
Garbage     == [kind |-> "garbage", map |-> EmptyMap]
\* not UTF-8: a file cut inside a multi-byte character (UnicodeDecodeError on load)
Undecodable == [kind |-> "undecodable", map |-> EmptyMap]
Object(m)   == [kind |-> "object", map |-> m]

DocIds(doc) == DOMAIN doc.map

BaseRequest ==
    [query |-> <<"t">>, search_field |-> S_all, sort_by |-> S_relevance,
     author_search |-> None, date_from |-> None, date_to |-> None]

\* two requests that share the slug "t" and one with an author suffix
Requests ==
    {BaseRequest,
     [BaseRequest EXCEPT !.query = <<"T">>, !.search_field = S_title],
     [BaseRequest EXCEPT !.author_search = Some(<<"J">>)]}

Topics == {QuerySlug(r.query, r.author_search) : r \in Requests}

\* lines 144-148: json.load of the topic document; FileNotFoundError and
\* json.JSONDecodeError give {}; UnicodeDecodeError is neither and propagates
Load(doc) ==
    CASE doc.kind = "object"      -> [raised |-> "", papers_info |-> doc.map]
      [] doc.kind = "missing"     -> [raised |-> "", papers_info |-> EmptyMap]
      [] doc.kind = "garbage"     -> [raised |-> "", papers_info |-> EmptyMap]
      [] doc.kind = "undecodable" -> [raised |-> "UnicodeDecodeError", papers_info |-> EmptyMap]

\* lines 160-177: paper_info
PaperInfo(paper, r) ==
    [title |-> paper.title,
     search_params |-> [query |-> r.query, sort_by |-> r.sort_by,
                        search_field |-> r.search_field,
                        author_search |-> r.author_search,
                        date_range |-> DateRange(r)]]

\* papers_info[paper_id] = paper_info
Put(m, k, v) == [x \in (DOMAIN m) \cup {k} |-> IF x = k THEN v ELSE m[x]]

\* one iteration of the loop with the test of line 158 dropped: a faulty variant
MergeOneOverwrite(acc, paper, r) ==
    [papers_info |-> Put(acc.papers_info, paper.id, PaperInfo(paper, r)),
     paper_ids |-> Append(acc.paper_ids, paper.id),
     new_papers_count |-> IF paper.id \in DOMAIN acc.papers_info
                          THEN acc.new_papers_count ELSE acc.new_papers_count + 1]

\* one iteration with the counter bumped outside the test of line 158: a faulty variant
MergeOneCountAll(acc, paper, r) ==
    [papers_info |-> IF paper.id \in DOMAIN acc.papers_info THEN acc.papers_info
                     ELSE Put(acc.papers_info, paper.id, PaperInfo(paper, r)),
     paper_ids |-> Append(acc.paper_ids, paper.id),
     new_papers_count |-> acc.new_papers_count + 1]

\* one iteration that lists only the new identifiers in paper_ids: a faulty variant
MergeOneListNew(acc, paper, r) ==
    IF paper.id \in DOMAIN acc.papers_info
    THEN acc
    ELSE [papers_info |-> Put(acc.papers_info, paper.id, PaperInfo(paper, r)),
          paper_ids |-> Append(acc.paper_ids, paper.id),
          new_papers_count |-> acc.new_papers_count + 1]

\* lines 155-178: one iteration of the loop over the provider's results
MergeOne(acc, paper, r) ==
    IF paper.id \in DOMAIN acc.papers_info
    THEN [acc EXCEPT !.paper_ids = Append(acc.paper_ids, paper.id)]
    ELSE [papers_info |-> Put(acc.papers_info, paper.id, PaperInfo(paper, r)),
          paper_ids |-> Append(acc.paper_ids, paper.id),
          new_papers_count |-> acc.new_papers_count + 1]

RECURSIVE MergeFrom(_, _, _)
MergeFrom(acc, papers, r) ==
    IF papers = <<>> THEN acc
    ELSE MergeFrom(MergeOne(acc, Head(papers), r), Tail(papers), r)

\* lines 150-178: the loop, from the loaded papers_info
Merge(papers_info, papers, r) ==
    MergeFrom([papers_info |-> papers_info, paper_ids |-> <<>>, new_papers_count |-> 0],
              papers, r)

\* lines 181-182 merging into what the file holds when it is written: a faulty variant
StoredDocumentUnion(current, papers_info) ==
    Object([x \in (DOMAIN current.map) \cup (DOMAIN papers_info) |->
               IF x \in DOMAIN papers_info THEN papers_info[x] ELSE current.map[x]])

\* lines 181-182: the file is overwritten with the dump of papers_info,
\* whatever it held
StoredDocument(current, papers_info) == Object(papers_info)

\* lines 185-202: the value search_papers returns
SearchResult(merged, r) ==
    [paper_ids |-> merged.paper_ids,
     total_found |-> Len(merged.paper_ids),
     new_papers |-> merged.new_papers_count,
     search_query |-> FinalQuery(r),
     storage_path |-> QuerySlug(r.query, r.author_search)]

-----------------------------------------------------------------------------
(* extract_info: lines 233-252 *)

RECURSIVE Perms(_)
\* the orders in which os.listdir may return the topic directories
Perms(S) ==
    IF S = {} THEN {<<>>}
    ELSE UNION {{<<x>> \o rest : rest \in Perms(S \ {x})} : x \in S}

NotFound(paper_id) == [kind |-> "not_found", paper_id |-> paper_id, record |-> EmptyMap]
Found(paper_id, rec) == [kind |-> "found", paper_id |-> paper_id, record |-> rec]

RECURSIVE Scan(_, _, _)
\* lines 238-252: the loop over the directories, in the order listed
Scan(st, order, paper_id) ==
    IF order = <<>> THEN [raised |-> "", value |-> NotFound(paper_id)]
    ELSE LET doc == st[Head(order)]
         IN CASE doc.kind = "missing" -> Scan(st, Tail(order), paper_id)
              [] doc.kind = "garbage" -> Scan(st, Tail(order), paper_id)
              [] doc.kind = "undecodable" ->
                    [raised |-> "UnicodeDecodeError", value |-> NotFound(paper_id)]
              [] doc.kind = "object" ->
                    IF paper_id \in DOMAIN doc.map
                    THEN [raised |-> "", value |-> Found(paper_id, doc.map[paper_id])]
                    ELSE Scan(st, Tail(order), paper_id)

-----------------------------------------------------------------------------
(* mcp_endpoint: lines 329-399 *)

\* line 394
InternalErrorCode == -32603

NoResult == [kind |-> "none"]

\* lines 372-384: the JSON-RPC result, status 200
ResultResponse(tool, arg, result) ==
    [tool |-> tool, arg |-> arg, status |-> 200, body |-> "result",
     code |-> 0, data |-> "", result |-> result]

\* lines 389-399: the except clause: any exception, HTTPException included
ErrorResponse(tool, arg, exc) ==
    [tool |-> tool, arg |-> arg, status |-> 500, body |-> "error",
     code |-> InternalErrorCode, data |-> exc, result |-> NoResult]

\* an exception that escapes the handler: the framework's plain 500 page
ServerErrorPage(tool, arg) ==
    [tool |-> tool, arg |-> arg, status |-> 500, body |-> "server_error_page",
     code |-> 0, data |-> "", result |-> NoResult]

\* the request shapes that are not a well-formed call of a known tool
BadShapes == {"not_json", "not_object", "bad_version", "unknown_method", "unknown_tool"}

\* lines 335-344, 370, 387 and 389-399 for each malformed shape
BadShapeResponse(shape) ==
    CASE shape = "not_json"       -> ErrorResponse(shape, <<>>, "JSONDecodeError")
      [] shape = "not_object"     -> ServerErrorPage(shape, <<>>)
      [] shape = "bad_version"    -> ErrorResponse(shape, <<>>, "HTTPException")
      [] shape = "unknown_method" -> ErrorResponse(shape, <<>>, "HTTPException")
      [] shape = "unknown_tool"   -> ErrorResponse(shape, <<>>, "HTTPException")

-----------------------------------------------------------------------------
(* The server handling one request at a time *)

Results == SeqsUpTo(PaperRecords, MaxResults)

\* runs: 0 for a call that failed, else how many times in a row (1 or 2 and
\* more) this very call has now succeeded
Call(r, papers, runs) == [req |-> r, papers |-> papers, runs |-> runs]
NoCall == Call(BaseRequest, <<>>, 0)

NoResponse == [tool |-> "none", arg |-> <<>>, status |-> 0, body |-> "none",
               code |-> 0, data |-> "", result |-> NoResult]

Procs == {1, 2}
IdleProc == [pc |-> "idle", req |-> BaseRequest, papers |-> <<>>, loaded |-> EmptyMap,
             acc |-> Merge(EmptyMap, <<>>, BaseRequest), wrote |-> 0]

\* lines 402-403: PAPER_DIR exists and, at first start, holds no topic
InitStore ==
    /\ store = [t \in Topics |-> Missing]
    /\ response = NoResponse
    /\ call = NoCall
    /\ procs = [p \in Procs |-> IdleProc]

Init ==
    /\ InitStore
    /\ req = BaseRequest
    /\ final_query = <<>>
    /\ query_slug = <<>>
    /\ qpc = "idle"

\* POST tools/call search_papers (line 362), the provider returning `papers`
CallSearchPapers(r, papers) ==
    LET t == QuerySlug(r.query, r.author_search)
        ld == Load(store[t])
        merged == Merge(ld.papers_info, papers, r)
    IN IF ld.raised # ""
       THEN /\ response' = ErrorResponse("search_papers", t, ld.raised)
            /\ call' = Call(r, papers, 0)
            /\ UNCHANGED store
       ELSE /\ store' = [store EXCEPT ![t] = StoredDocument(store[t], merged.papers_info)]
            /\ response' = ResultResponse("search_papers", t, SearchResult(merged, r))
            /\ call' = Call(r, papers,
                            IF call.runs > 0 /\ call.req = r /\ call.papers = papers
                            THEN 2 ELSE 1)

\* the same call, the provider raising in the loop of line 154: whatever it
\* had yielded before, the exception leaves search_papers before line 181
CallSearchPapersProviderRaises(r) ==
    LET t == QuerySlug(r.query, r.author_search)
        ld == Load(store[t])
    IN /\ response' = ErrorResponse("search_papers", t,
                                    IF ld.raised # "" THEN ld.raised ELSE "ProviderError")
       /\ call' = Call(r, <<>>, 0)
       /\ UNCHANGED store

\* the same call, lines 181-182 failing with an OSError: before open() has
\* truncated the file ("unchanged"), or after, with a prefix of the text
\* written ("garbage": an empty or cut file is not JSON), possibly cut inside
\* a multi-byte character of a record ("undecodable": json.dump is called with
\* ensure_ascii=False, so titles, names and summaries are written as UTF-8)
CallSearchPapersStoreFails(r, papers, left) ==
    LET t == QuerySlug(r.query, r.author_search)
        ld == Load(store[t])
        merged == Merge(ld.papers_info, papers, r)
    IN /\ ld.raised = ""
       /\ left = "undecodable" => merged.papers_info # EmptyMap
       /\ store' = [store EXCEPT ![t] = CASE left = "unchanged"   -> store[t]
                                          [] left = "garbage"     -> Garbage
                                          [] left = "undecodable" -> Undecodable]
       /\ response' = ErrorResponse("search_papers", t, "OSError")
       /\ call' = Call(r, papers, 0)

\* POST tools/call extract_info (line 368)
CallExtractInfo(paper_id, order) ==
    LET out == Scan(store, order, paper_id)
    IN /\ response' = IF out.raised # ""
                      THEN ErrorResponse("extract_info", paper_id, out.raised)
                      ELSE ResultResponse("extract_info", paper_id, out.value)
       /\ call' = NoCall
       /\ UNCHANGED store

\* POST tools/list (lines 346-354)
ToolsList ==
    /\ response' = ResultResponse("tools/list", <<>>, NoResult)
    /\ call' = NoCall
    /\ UNCHANGED store

\* a POST that is not a well-formed call of a known tool
BadRequest(shape) ==
    /\ response' = BadShapeResponse(shape)
    /\ call' = NoCall
    /\ UNCHANGED store

TopicOrders == Perms(Topics)

Other == <<procs, req, final_query, query_slug, qpc>>

Next ==
    \/ \E r \in Requests, papers \in Results :
          CallSearchPapers(r, papers) /\ UNCHANGED Other
    \/ \E r \in Requests :
          CallSearchPapersProviderRaises(r) /\ UNCHANGED Other
    \/ \E paper_id \in Ids \cup {AbsentId}, order \in TopicOrders :
          CallExtractInfo(paper_id, order) /\ UNCHANGED Other
    \/ ToolsList /\ UNCHANGED Other
    \/ \E shape \in BadShapes : BadRequest(shape) /\ UNCHANGED Other

\* the server with no I/O fault
Spec == Init /\ [][Next]_vars

NextFault ==
    \/ Next
    \/ \E r \in Requests, papers \in Results, left \in {"unchanged", "garbage", "undecodable"} :
          CallSearchPapersStoreFails(r, papers, left) /\ UNCHANGED Other

\* the server with the store step allowed to fail
SpecFault == Init /\ [][NextFault]_vars

-----------------------------------------------------------------------------
(* The query builder alone, over bounded requests *)

InitQuery ==
    /\ InitStore
    /\ req \in QRequests
    /\ final_query = <<>>
    /\ query_slug = <<>>
    /\ qpc = "new"

\* lines 82-118 and 133-136 of one search_papers call
BuildQuery ==
    /\ qpc = "new"
    /\ final_query' = FinalQuery(req)
    /\ query_slug' = QuerySlug(req.query, req.author_search)
    /\ qpc' = "built"
    /\ UNCHANGED <<store, response, call, procs, req>>

NextQuery == BuildQuery

SpecQuery == InitQuery /\ [][NextQuery]_vars

-----------------------------------------------------------------------------
(* Two search_papers calls whose load, merge and store steps interleave *)

ConcResults == SeqsUpTo(PaperRecords, MaxConcResults)

ProcTopic(p) == QuerySlug(procs[p].req.query, procs[p].req.author_search)

\* how many calls have completed their write
Written == Cardinality({p \in Procs : procs[p].wrote > 0})

\* lines 144-148 of call p, with request r; the provider will return `papers`
ConcLoad(p, r, papers) ==
    LET ld == Load(store[QuerySlug(r.query, r.author_search)])
    IN /\ procs[p].pc = "idle"
       /\ procs' = [procs EXCEPT ![p] =
                      [@ EXCEPT !.pc = IF ld.raised # "" THEN "failed" ELSE "loaded",
                                !.req = r, !.papers = papers,
                                !.loaded = ld.papers_info]]
       /\ UNCHANGED store

\* lines 150-178 of call p: the loop, on the call's own papers_info
ConcMerge(p) ==
    /\ procs[p].pc = "loaded"
    /\ procs' = [procs EXCEPT ![p] =
                   [@ EXCEPT !.pc = "merged",
                             !.acc = Merge(procs[p].loaded, procs[p].papers, procs[p].req)]]
    /\ UNCHANGED store

\* line 181 of call p: open(file_path, "w") empties the file
ConcOpen(p) ==
    /\ procs[p].pc = "merged"
    /\ procs' = [procs EXCEPT ![p] = [@ EXCEPT !.pc = "opened"]]
    /\ store' = [store EXCEPT ![ProcTopic(p)] = Garbage]

\* line 182 of call p: the dump is written from offset 0 and the file closed.
\* Over an empty file the file is the dump; over a text another call wrote
\* since line 181 it is the dump too, or, when the dump is the shorter text,
\* the dump followed by the rest of the other text, which is not JSON
ConcDump(p, overlaid) ==
    /\ procs[p].pc = "opened"
    /\ overlaid => store[ProcTopic(p)].kind = "object"
    /\ procs' = [procs EXCEPT ![p] = [@ EXCEPT !.pc = "done", !.wrote = Written + 1]]
    /\ store' = [store EXCEPT ![ProcTopic(p)] =
                    IF overlaid THEN Garbage
                    ELSE StoredDocument(store[ProcTopic(p)], procs[p].acc.papers_info)]

NextConc ==
    \/ \E p \in Procs, r \in Requests, papers \in ConcResults :
          ConcLoad(p, r, papers) /\ UNCHANGED <<response, call, req, final_query, query_slug, qpc>>
    \/ \E p \in Procs :
          ConcMerge(p) /\ UNCHANGED <<response, call, req, final_query, query_slug, qpc>>
    \/ \E p \in Procs :
          ConcOpen(p) /\ UNCHANGED <<response, call, req, final_query, query_slug, qpc>>
    \/ \E p \in Procs, overlaid \in BOOLEAN :
          ConcDump(p, overlaid) /\ UNCHANGED <<response, call, req, final_query, query_slug, qpc>>

SpecConc == Init /\ [][NextConc]_vars

-----------------------------------------------------------------------------
(* Claims *)

PaperIdsOf(papers) == {papers[i].id : i \in 1..Len(papers)}

SearchSucceeded(resp) == resp.tool = "search_papers" /\ resp.status = 200

\* C1: first-write-wins.  In every step of the server, an identifier stored
\* in a topic document before the step is still stored after it, with the same
\* record (attributes and search_params provenance), whatever content the
\* provider returned for it in that step.
C1_FirstWriteWins ==
    [][\A t \in Topics : \A id \in DocIds(store[t]) :
          /\ id \in DocIds(store'[t])
          /\ store'[t].map[id] = store[t].map[id]]_vars

\* C1 witness: a search has just succeeded whose provider results carried, for
\* a stored identifier, another content under another request than the stored
\* record has, and the stored record is the earlier one.
C1_Witness ==
    /\ SearchSucceeded(response)
    /\ \E i \in 1..Len(call.papers) :
          LET stored == store[response.arg].map[call.papers[i].id]
              fresh == PaperInfo(call.papers[i], call.req)
          IN /\ stored.title # fresh.title
             /\ stored.search_params # fresh.search_params

\* C2: idempotence.  When a successful search_papers call is at once followed
\* by the same call (same request, same provider results), the second call
\* leaves every stored document as the first left it and reports new_papers = 0.
C2_Idempotent ==
    [][(response'.tool = "search_papers" /\ call'.runs = 2)
          => (store' = store /\ response'.result.new_papers = 0)]_vars

\* C2 witness: the second of two identical calls with a non-empty result has
\* returned.
C2_Witness ==
    /\ SearchSucceeded(response)
    /\ call.runs = 2
    /\ call.papers # <<>>
    /\ response.result.total_found = Len(call.papers)
    /\ response.result.new_papers = 0

\* C3: the result of one call.  After a successful search_papers step the
\* topic's identifier set is the previous set united with the returned
\* identifiers, the other topics are untouched, paper_ids lists every returned
\* identifier in the provider's order, total_found is its length, and
\* new_papers counts the returned identifiers absent before the call.
C3_MergeResult ==
    [][SearchSucceeded(response') =>
          LET t == response'.arg
              returned == PaperIdsOf(call'.papers)
          IN /\ store'[t].kind = "object"
             /\ DocIds(store'[t]) = DocIds(store[t]) \cup returned
             /\ \A u \in Topics \ {t} : store'[u] = store[u]
             /\ response'.result.paper_ids =
                   [i \in 1..Len(call'.papers) |-> call'.papers[i].id]
             /\ response'.result.total_found = Len(call'.papers)
             /\ response'.result.new_papers =
                   Cardinality(returned \ DocIds(store[t]))]_vars

\* C3 witness: a call has returned two different identifiers of which one was
\* new, and the document now holds both.
C3_Witness ==
    /\ SearchSucceeded(response)
    /\ response.result.total_found = 2
    /\ response.result.paper_ids[1] # response.result.paper_ids[2]
    /\ response.result.new_papers = 1
    /\ DocIds(store[response.arg]) = PaperIdsOf(call.papers)

\* the topic documents that hold paper_id
Holders(paper_id) ==
    {t \in Topics : store[t].kind = "object" /\ paper_id \in DocIds(store[t])}

\* C4: lookup correctness.  After extract_info(paper_id), if exactly one topic
\* document holds the identifier the response is that stored record, and if none
\* holds it the response is the not-found result; whatever the other documents
\* are, no exception is raised.
C4_LookupCorrect ==
    response.tool = "extract_info" =>
        LET holders == Holders(response.arg)
        IN /\ response.status = 200
           /\ Cardinality(holders) = 1 =>
                 response.result =
                    Found(response.arg,
                          store[CHOOSE t \in holders : TRUE].map[response.arg])
           /\ holders = {} => response.result = NotFound(response.arg)

\* C5: input-shape errors.  A POST that is not a JSON-RPC 2.0 envelope, names
\* an unknown method or names an unknown tool is answered with a client error
\* (status 4xx), never with the internal-failure response (status 500, code
\* -32603).
C5_ClientError ==
    response.tool \in BadShapes =>
        /\ response.status \in 400..499
        /\ ~(response.status = 500 /\ response.code = InternalErrorCode)

AuthorSuffix(r) ==
    IF Truthy(r.author_search)
    THEN S_by \o Replace(r.author_search.val, " ", "_")
    ELSE <<>>

\* C6: slug safety.  The slug built for a request holds no path separator,
\* and it is a part of at most 50 characters followed, when an author filter
\* is given, by "_by_" and the author name with spaces replaced by underscores.
C6_SlugSafe ==
    qpc = "built" =>
        /\ \A i \in 1..Len(query_slug) : query_slug[i] # "/"
        /\ \E n \in 0..SlugMax :
              /\ n <= Len(query_slug)
              /\ query_slug = SubSeq(query_slug, 1, n) \o AuthorSuffix(req)

\* the date bound of the range clause: the date with its suffix, or *
Bound(d, suffix) == IF Truthy(d) THEN d.val \o suffix ELSE <<"*">>

\* the ProviderQuery as the claim words it, for a given field code (<<>>: none)
ClaimedQuery(r, code) ==
    LET term == IF code = <<>> THEN r.query ELSE code \o <<":">> \o r.query
        author == IF Truthy(r.author_search)
                  THEN <<S_au \o <<":">> \o Replace(Lower(r.author_search.val), " ", "_")>>
                  ELSE <<>>
        date == IF Truthy(r.date_from) \/ Truthy(r.date_to)
                THEN <<S_submittedDate \o Bound(r.date_from, S_0000) \o S_TO
                        \o Bound(r.date_to, S_2359) \o <<"]">> >>
                ELSE <<>>
    IN Join(S_AND, <<term>> \o author \o date)

\* the claim's table of field codes
ClaimedCode(field) ==
    CASE field = S_title       -> S_ti
      [] field = S_author      -> S_au
      [] field = S_abstract    -> S_abs
      [] field = S_category    -> S_cat
      [] field = S_comment     -> S_co
      [] field = S_journal_ref -> S_jr
      [] field = S_all         -> <<>>

ClaimedFields == {S_all, S_title, S_author, S_abstract, S_category, S_comment, S_journal_ref}

AmendedCode(field) ==
    LET f == Lower(field)
    IN CASE f = S_title    -> S_ti
         [] f = S_author   -> S_au
         [] f = S_abstract -> S_abs
         [] f = S_category -> S_cat
         [] f = S_comment  -> S_co
         [] f = S_journal  -> S_jr
         [] OTHER          -> <<>>

CallsOn(t) == {p \in Procs : procs[p].pc # "idle" /\ ProcTopic(p) = t}

\* C8: last writer wins.  When the concurrent calls on a topic have all
\* finished and the document is readable, it is what the call that wrote last
\* merged: the identifiers that call had loaded and those the provider
\* returned to it, and nothing another call inserted meanwhile.
C8_LastWriterWins ==
    \A t \in Topics :
        (/\ CallsOn(t) # {}
         /\ \A p \in CallsOn(t) : procs[p].pc = "done"
         /\ store[t].kind = "object")
        => \E w \in CallsOn(t) :
              /\ \A p \in CallsOn(t) : procs[p].wrote <= procs[w].wrote
              /\ store[t].map = procs[w].acc.papers_info
              /\ DocIds(store[t]) = (DOMAIN procs[w].loaded) \cup PaperIdsOf(procs[w].papers)

\* C8 witness: the lost update.  Two calls on one topic have both finished, one
\* of them inserted an identifier and counted it as new, and the stored
\* document does not hold it.
C8_LostUpdate ==
    \E p \in Procs : \E q \in Procs \ {p} :
        /\ procs[p].pc = "done" /\ procs[q].pc = "done"
        /\ ProcTopic(p) = ProcTopic(q)
        /\ store[ProcTopic(p)].kind = "object"
        /\ procs[p].acc.new_papers_count > 0
        /\ \E id \in PaperIdsOf(procs[p].papers) \ DOMAIN procs[p].loaded :
              id \notin DocIds(store[ProcTopic(p)])

\* C9: permissive load.  A search_papers call on a topic whose document is
\* missing or malformed, the provider and the store step not failing, succeeds
\* as on an empty cache: every returned identifier is new and the document
\* written holds the returned records and nothing else.
C9_PermissiveLoad ==
    [][(/\ response'.tool = "search_papers"
        /\ store[response'.arg].kind # "object"
        /\ response'.data \notin {"ProviderError", "OSError"})
       => (/\ response'.status = 200
           /\ response'.result.new_papers = Cardinality(PaperIdsOf(call'.papers))
           /\ store'[response'.arg] =
                 Object(Merge(EmptyMap, call'.papers, call'.req).papers_info))]_vars

\* C10: all-or-nothing.  A search_papers call that fails, in the provider or
\* in the store step, leaves every topic document as it was before the call.
C10_AllOrNothing ==
    [][(response'.tool = "search_papers" /\ response'.status # 200)
          => store' = store]_vars

=============================================================================
